---- MODULE Spec2Model ----
(***************************************************************************)
(* A model of the HiFi I2S driver for the SSC peripheral of the SAM3X      *)
(* (src/HiFi.cpp, src/HiFi.h).                                             *)
(*                                                                         *)
(* The driver's state is the two callback pointers of the HiFi object; the *)
(* rest of the state is the peripheral it programs: the clock mode and     *)
(* frame mode registers of the two directions, the interrupt mask, the     *)
(* enable bits and the status register.  The vendor functions the driver   *)
(* calls (ssc_set_transmitter, ssc_enable_tx, ssc_get_status, ...) are not *)
(* part of the repository; a call is modelled by the register it writes or *)
(* reads, and the configuration "committed" by configureTx / configureRx   *)
(* is the pair of descriptors handed to ssc_set_transmitter /              *)
(* ssc_set_receiver.  Register fields hold the field codes of the vendor   *)
(* macros (component_ssc.h of the SAM3X).                                  *)
(***************************************************************************)
EXTENDS Integers, Sequences, FiniteSets

\* ------------------------------------------------------------------------
\* Enumerations of HiFi.h
\* ------------------------------------------------------------------------
HIFI_AUDIO_MODE_MONO_LEFT == 0
HIFI_AUDIO_MODE_MONO_RIGHT == 1
HIFI_AUDIO_MODE_STEREO == 2

HIFI_CLK_MODE_USE_EXT_CLKS == 0
HIFI_CLK_MODE_USE_TK_RK_CLK == 1

HIFI_CHANNEL_ID_1 == 0
HIFI_CHANNEL_ID_2 == 1

HiFiAudioMode_t ==
  {HIFI_AUDIO_MODE_MONO_LEFT, HIFI_AUDIO_MODE_MONO_RIGHT, HIFI_AUDIO_MODE_STEREO}

HiFiClockMode_t == {HIFI_CLK_MODE_USE_EXT_CLKS, HIFI_CLK_MODE_USE_TK_RK_CLK}

HiFiChannelID_t == {HIFI_CHANNEL_ID_1, HIFI_CHANNEL_ID_2}

\* ------------------------------------------------------------------------
\* Field codes of the vendor macros used by HiFi.cpp
\* ------------------------------------------------------------------------
\* TCMR.CKS: the macro names are swapped with respect to the pins (comments
\* at HiFi.cpp 124-130 and 148-154): code 2 selects the TK pin, code 1 the
\* receiver's clock.
SSC_TCMR_CKS_TK == 1
SSC_TCMR_CKS_RK == 2
SSC_TCMR_START_RECEIVE == 1
SSC_TCMR_START_RF_FALLING == 4
SSC_TCMR_START_RF_RISING == 5
SSC_TCMR_CKG_NONE == 0
SSC_TCMR_CKO_NONE == 0
SSC_TFMR_MSBF == 1
SSC_TFMR_FSOS_NONE == 0

SSC_RCMR_CKS_TK == 1
SSC_RCMR_CKS_RK == 2
SSC_RCMR_START_TRANSMIT == 1
SSC_RCMR_START_RF_FALLING == 4
SSC_RCMR_START_RF_RISING == 5
SSC_RCMR_CKG_NONE == 0
SSC_RCMR_CKO_NONE == 0
SSC_RCMR_CKI == 1
SSC_RFMR_MSBF == 1

\* What the peripheral does with a clock selection code, as HiFi.cpp documents
\* it: for the transmitter code 2 is its own TK pin and code 1 the receiver's
\* clock; for the receiver code 2 is its own RK pin and code 1 the
\* transmitter's clock.
TcmrClock(cks) ==
  IF cks = 2 THEN "TK pin" ELSE IF cks = 1 THEN "receiver clock" ELSE "divided clock"

RcmrClock(cks) ==
  IF cks = 2 THEN "RK pin" ELSE IF cks = 1 THEN "transmitter clock" ELSE "divided clock"

\* ------------------------------------------------------------------------
\* Pin tables: index 0 is the data pin, 1 the frame pin, 2 the clock pin
\* ------------------------------------------------------------------------
SSCTXPins == <<"TD", "TF", "TK">>
SSCRXPins == <<"RD", "RF", "RK">>

\* ------------------------------------------------------------------------
\* Inputs
\* ------------------------------------------------------------------------
\* bitsPerChannel is a uint8_t.  0 is left out: bitsPerChannel - 1 would be
\* 2^32 - 1 in the uint32_t field, beyond the integers of the model checker;
\* values above 32 are kept.
BitsPerChannelValues == {1, 16, 32, 33, 255}

\* The callbacks a sketch registers (SineWaveOut.ino), and the null pointer.
NULL == "NULL"
TxCallbacks == {NULL, "codecTxReadyInterrupt"}
RxCallbacks == {NULL, "codecRxReadyInterrupt"}

NoArgs == <<>>

VARIABLES
  tcmr,               \* transmit clock mode register (clock_opt_t committed)
  tfmr,               \* transmit frame mode register (data_frame_opt_t committed)
  rcmr,               \* receive clock mode register
  rfmr,               \* receive frame mode register
  imr,                \* interrupt mask: subset of {"TXRDY", "RXRDY"}
  txEnabled,          \* transmitter enabled (ssc_enable_tx / ssc_disable_tx)
  rxEnabled,          \* receiver enabled
  sr,                 \* status register bits TXRDY, RXRDY, TXSYN, RXSYN
  nvicEnabled,        \* SSC_IRQn enabled in the NVIC
  txPins,             \* pins handed to PIO_Configure by the last configureTx
  rxPins,             \* pins handed to PIO_Configure by the last configureRx
  onTxReadyCallback,  \* HiFiClass::onTxReadyCallback
  onRxReadyCallback,  \* HiFiClass::onRxReadyCallback
  txArgs,             \* arguments of the configureTx call that wrote tcmr/tfmr
  rxArgs,             \* arguments of the configureRx call that wrote rcmr/rfmr
  pc,                 \* position of the interrupt handler
  status,             \* onService: the local `status`
  inv,                \* onService: what this invocation has observed and called
  txFrame,            \* transmitter: position in the frame, slot of the pending ready event
  rxFrame             \* receiver: position in the frame, slot of the pending ready event

vars == <<tcmr, tfmr, rcmr, rfmr, imr, txEnabled, rxEnabled, sr, nvicEnabled,
          txPins, rxPins, onTxReadyCallback, onRxReadyCallback, txArgs, rxArgs,
          pc, status, inv, txFrame, rxFrame>>

cfgVars == <<tcmr, tfmr, rcmr, rfmr>>
isrVars == <<pc, status, inv>>
frameVars == <<txFrame, rxFrame>>

\* memset(&opt, 0, sizeof opt)
ZeroClockOpt ==
  [ul_cks |-> 0, ul_cko |-> 0, ul_cki |-> 0, ul_ckg |-> 0,
   ul_start_sel |-> 0, ul_period |-> 0, ul_sttdly |-> 0]

ZeroFrameOpt ==
  [ul_datlen |-> 0, ul_msbf |-> 0, ul_datnb |-> 0, ul_fsos |-> 0]

ZeroStatus == [TXRDY |-> FALSE, RXRDY |-> FALSE, TXSYN |-> FALSE, RXSYN |-> FALSE]

\* served: for each callback made, the slot of the ready event it answers
NoInvocation ==
  [reads |-> 0, txReady |-> FALSE, rxReady |-> FALSE, calls |-> <<>>, served |-> <<>>]

\* next: the slot whose ready event the peripheral raises next in the running
\* frame (0: none before the next start condition); pending: the slot of the
\* ready event that is raised and not yet serviced (0: none)
NoFrame == [next |-> 0, pending |-> 0]


\* ------------------------------------------------------------------------
\* Mode resolver, transmit (HiFiClass::configureTx)
\* ------------------------------------------------------------------------
\* endpin: the number of entries of SSCTXPins handed to PIO_Configure
TxEndPin(clkMode) ==
  IF clkMode = HIFI_CLK_MODE_USE_TK_RK_CLK THEN 1 ELSE Len(SSCTXPins)

\* for (i = 0; i < endpin; i++) PIO_Configure(SSCTXPins[i] ...)
TxPinsConfigured(clkMode) ==
  {SSCTXPins[i + 1] : i \in 0 .. (TxEndPin(clkMode) - 1)}

\* switch (clkMode): the clock source of the transmitter
TxClockSource(clkMode) ==
  IF clkMode = HIFI_CLK_MODE_USE_EXT_CLKS THEN SSC_TCMR_CKS_RK ELSE SSC_TCMR_CKS_TK

\* TxStartSel with the two edges exchanged
TxStartSelSwapped(audioMode, clkMode) ==
  IF clkMode = HIFI_CLK_MODE_USE_EXT_CLKS
  THEN IF audioMode = HIFI_AUDIO_MODE_MONO_RIGHT
       THEN SSC_TCMR_START_RF_FALLING
       ELSE SSC_TCMR_START_RF_RISING
  ELSE SSC_TCMR_START_RECEIVE

\* switch (clkMode): the start condition of the transmitter
TxStartSel(audioMode, clkMode) ==
  IF clkMode = HIFI_CLK_MODE_USE_EXT_CLKS
  THEN IF audioMode = HIFI_AUDIO_MODE_MONO_RIGHT
       THEN SSC_TCMR_START_RF_RISING
       ELSE SSC_TCMR_START_RF_FALLING
  ELSE SSC_TCMR_START_RECEIVE

\* TxClockOpt with a continuous output clock, as a master would set it
TxClockOptMaster(audioMode, clkMode) ==
  [ZeroClockOpt EXCEPT
     !.ul_cks = TxClockSource(clkMode),
     !.ul_start_sel = TxStartSel(audioMode, clkMode),
     !.ul_ckg = SSC_TCMR_CKG_NONE,
     !.ul_period = 0,
     !.ul_cko = 1,
     !.ul_cki = 0,
     !.ul_sttdly = 1]

\* tx_clk_option as handed to ssc_set_transmitter
TxClockOpt(audioMode, clkMode) ==
  [ZeroClockOpt EXCEPT
     !.ul_cks = TxClockSource(clkMode),
     !.ul_start_sel = TxStartSel(audioMode, clkMode),
     !.ul_ckg = SSC_TCMR_CKG_NONE,
     !.ul_period = 0,
     !.ul_cko = SSC_TCMR_CKO_NONE,
     !.ul_cki = 0,
     !.ul_sttdly = 1]

\* ul_datlen = bitsPerChannel - 1
TxDatLen(bitsPerChannel) == bitsPerChannel - 1

\* TxDatNb holding the number of words instead of the number minus one
TxDatNbOneBased(audioMode) == IF audioMode = HIFI_AUDIO_MODE_STEREO THEN 2 ELSE 1

\* ul_datnb: the number of data words per frame, minus one
TxDatNb(audioMode) == IF audioMode = HIFI_AUDIO_MODE_STEREO THEN 1 ELSE 0

\* tx_data_frame_option as handed to ssc_set_transmitter
TxFrameOpt(audioMode, bitsPerChannel) ==
  [ZeroFrameOpt EXCEPT
     !.ul_datlen = TxDatLen(bitsPerChannel),
     !.ul_msbf = SSC_TFMR_MSBF,
     !.ul_datnb = TxDatNb(audioMode),
     !.ul_fsos = SSC_TFMR_FSOS_NONE]

\* ------------------------------------------------------------------------
\* Mode resolver, receive (HiFiClass::configureRx)
\* ------------------------------------------------------------------------
\* endpin is computed as for transmit ...
RxEndPin(clkMode) ==
  IF clkMode = HIFI_CLK_MODE_USE_TK_RK_CLK THEN 1 ELSE Len(SSCRXPins)

\* ... but the loop runs to sizeof(SSCRXPins)/sizeof(SSCRXPins[0]), not to endpin
RxPinsConfigured(clkMode) ==
  {SSCRXPins[i + 1] : i \in 0 .. (Len(SSCRXPins) - 1)}

\* RxClockSource selecting the RK pin in both clock modes
RxClockSourceOwnPin(clkMode) == SSC_RCMR_CKS_RK

RxClockSource(clkMode) ==
  IF clkMode = HIFI_CLK_MODE_USE_EXT_CLKS THEN SSC_RCMR_CKS_RK ELSE SSC_RCMR_CKS_TK

RxStartSel(audioMode, clkMode) ==
  IF clkMode = HIFI_CLK_MODE_USE_EXT_CLKS
  THEN IF audioMode = HIFI_AUDIO_MODE_MONO_RIGHT
       THEN SSC_RCMR_START_RF_RISING
       ELSE SSC_RCMR_START_RF_FALLING
  ELSE SSC_RCMR_START_TRANSMIT

RxClockOpt(audioMode, clkMode) ==
  [ZeroClockOpt EXCEPT
     !.ul_cks = RxClockSource(clkMode),
     !.ul_start_sel = RxStartSel(audioMode, clkMode),
     !.ul_ckg = SSC_RCMR_CKG_NONE,
     !.ul_period = 0,
     !.ul_cko = SSC_RCMR_CKO_NONE,
     !.ul_cki = SSC_RCMR_CKI,
     !.ul_sttdly = 1]

\* RxDatLen without the zero-based offset
RxDatLenNoOffset(bitsPerChannel) == bitsPerChannel

RxDatLen(bitsPerChannel) == bitsPerChannel - 1

RxDatNb(audioMode) == IF audioMode = HIFI_AUDIO_MODE_STEREO THEN 1 ELSE 0

\* the frame sync output selection is written with the transmitter's macro
RxFrameOpt(audioMode, bitsPerChannel) ==
  [ZeroFrameOpt EXCEPT
     !.ul_datlen = RxDatLen(bitsPerChannel),
     !.ul_msbf = SSC_RFMR_MSBF,
     !.ul_datnb = RxDatNb(audioMode),
     !.ul_fsos = SSC_TFMR_FSOS_NONE]

\* ------------------------------------------------------------------------
\* Status register and data registers
\* ------------------------------------------------------------------------
\* The register after a read of SSC_SR: the sync bits are cleared by the read
ReadSR(s) == [s EXCEPT !.TXSYN = FALSE, !.RXSYN = FALSE]

\* HiFiClass::write: a store to the transmit holding register clears TXRDY
write(s) == [s EXCEPT !.TXRDY = FALSE]

\* HiFiClass::read: a load of the receive holding register clears RXRDY
read(s) == [s EXCEPT !.RXRDY = FALSE]

\* The sketch's callbacks: each transfers one word
codecTxReadyInterrupt(s) == write(s)
codecRxReadyInterrupt(s) == read(s)

\* ------------------------------------------------------------------------
\* Frame event classifier (HiFiClass::onService)
\* ------------------------------------------------------------------------
TxChannel(st) == IF st.TXSYN THEN HIFI_CHANNEL_ID_1 ELSE HIFI_CHANNEL_ID_2

\* RxChannel classifying by the transmitter's sync bit
RxChannelFromTxSync(st) == IF st.TXSYN THEN HIFI_CHANNEL_ID_1 ELSE HIFI_CHANNEL_ID_2

RxChannel(st) == IF st.RXSYN THEN HIFI_CHANNEL_ID_1 ELSE HIFI_CHANNEL_ID_2

\* TxCalled without the test of the ready bit
TxCalledUnchecked(ready, callback) == callback # NULL

\* if (ssc_is_tx_ready(SSC) == SSC_RC_YES) if (HiFi.onTxReadyCallback)
TxCalled(ready, callback) == ready /\ callback # NULL

\* RxCalled without the test of the callback pointer
RxCalledNoNullCheck(ready, callback) == ready

\* if (ssc_is_rx_ready(SSC) == SSC_RC_YES) if (HiFi.onRxReadyCallback)
RxCalled(ready, callback) == ready /\ callback # NULL

\* ------------------------------------------------------------------------
\* Initial state: the static object HiFi is zero-initialised and its
\* constructor is empty; the peripheral is in its reset state.
\* ------------------------------------------------------------------------
Init ==
  /\ tcmr = ZeroClockOpt
  /\ tfmr = ZeroFrameOpt
  /\ rcmr = ZeroClockOpt
  /\ rfmr = ZeroFrameOpt
  /\ imr = {}
  /\ txEnabled = FALSE
  /\ rxEnabled = FALSE
  /\ sr = ZeroStatus
  /\ nvicEnabled = FALSE
  /\ txPins = {}
  /\ rxPins = {}
  /\ onTxReadyCallback = NULL
  /\ onRxReadyCallback = NULL
  /\ txArgs = NoArgs
  /\ rxArgs = NoArgs
  /\ pc = "idle"
  /\ status = ZeroStatus
  /\ inv = NoInvocation
  /\ txFrame = NoFrame
  /\ rxFrame = NoFrame

\* ------------------------------------------------------------------------
\* The configuration API, called from setup() / loop(): never while the
\* interrupt handler runs.
\* ------------------------------------------------------------------------
begin ==
  /\ pc = "idle"
  \* ssc_reset
  /\ tcmr' = ZeroClockOpt
  /\ tfmr' = ZeroFrameOpt
  /\ rcmr' = ZeroClockOpt
  /\ rfmr' = ZeroFrameOpt
  /\ imr' = {}
  /\ txEnabled' = FALSE
  /\ rxEnabled' = FALSE
  /\ sr' = ZeroStatus
  /\ txArgs' = NoArgs
  /\ rxArgs' = NoArgs
  /\ txFrame' = NoFrame
  /\ rxFrame' = NoFrame
  \* NVIC_EnableIRQ
  /\ nvicEnabled' = TRUE
  /\ UNCHANGED <<txPins, rxPins, onTxReadyCallback, onRxReadyCallback, isrVars>>

configureTx(audioMode, clkMode, bitsPerChannel) ==
  /\ pc = "idle"
  /\ txPins' = TxPinsConfigured(clkMode)
  \* ssc_set_transmitter
  /\ tcmr' = TxClockOpt(audioMode, clkMode)
  /\ tfmr' = TxFrameOpt(audioMode, bitsPerChannel)
  \* ssc_enable_interrupt(SSC, SSC_IER_TXRDY)
  /\ imr' = imr \cup {"TXRDY"}
  /\ txArgs' = <<audioMode, clkMode, bitsPerChannel>>
  /\ UNCHANGED <<rcmr, rfmr, txEnabled, rxEnabled, sr, nvicEnabled, rxPins,
                 onTxReadyCallback, onRxReadyCallback, rxArgs, isrVars,
                 frameVars>>

\* enableTx clearing the transmitter's configuration when it disables
enableTxResetOnDisable(enable) ==
  /\ pc = "idle"
  /\ txEnabled' = enable
  /\ tcmr' = IF enable THEN tcmr ELSE ZeroClockOpt
  /\ tfmr' = IF enable THEN tfmr ELSE ZeroFrameOpt
  /\ UNCHANGED <<rcmr, rfmr, imr, rxEnabled, sr, nvicEnabled, txPins, rxPins,
                 onTxReadyCallback, onRxReadyCallback, txArgs, rxArgs, isrVars,
                 frameVars>>

enableTx(enable) ==
  /\ pc = "idle"
  /\ txEnabled' = enable
  /\ UNCHANGED <<cfgVars, imr, rxEnabled, sr, nvicEnabled, txPins, rxPins,
                 onTxReadyCallback, onRxReadyCallback, txArgs, rxArgs, isrVars,
                 frameVars>>

onTxReady(function) ==
  /\ pc = "idle"
  /\ onTxReadyCallback' = function
  /\ UNCHANGED <<cfgVars, imr, txEnabled, rxEnabled, sr, nvicEnabled, txPins,
                 rxPins, onRxReadyCallback, txArgs, rxArgs, isrVars,
                 frameVars>>

configureRx(audioMode, clkMode, bitsPerChannel) ==
  /\ pc = "idle"
  /\ rxPins' = RxPinsConfigured(clkMode)
  \* ssc_set_receiver
  /\ rcmr' = RxClockOpt(audioMode, clkMode)
  /\ rfmr' = RxFrameOpt(audioMode, bitsPerChannel)
  \* ssc_enable_interrupt(SSC, SSC_IER_RXRDY)
  /\ imr' = imr \cup {"RXRDY"}
  /\ rxArgs' = <<audioMode, clkMode, bitsPerChannel>>
  /\ UNCHANGED <<tcmr, tfmr, txEnabled, rxEnabled, sr, nvicEnabled, txPins,
                 onTxReadyCallback, onRxReadyCallback, txArgs, isrVars,
                 frameVars>>

enableRx(enable) ==
  /\ pc = "idle"
  /\ rxEnabled' = enable
  /\ UNCHANGED <<cfgVars, imr, txEnabled, sr, nvicEnabled, txPins, rxPins,
                 onTxReadyCallback, onRxReadyCallback, txArgs, rxArgs, isrVars,
                 frameVars>>

onRxReady(function) ==
  /\ pc = "idle"
  /\ onRxReadyCallback' = function
  /\ UNCHANGED <<cfgVars, imr, txEnabled, rxEnabled, sr, nvicEnabled, txPins,
                 rxPins, onTxReadyCallback, txArgs, rxArgs, isrVars,
                 frameVars>>


\* ------------------------------------------------------------------------
\* The peripheral: an enabled direction raises its ready bit when its
\* holding register can be written / read, and its sync bit at the start
\* condition of a frame.
\* ------------------------------------------------------------------------
HwTxReady ==
  /\ txEnabled
  /\ ~sr.TXRDY
  /\ sr' = [sr EXCEPT !.TXRDY = TRUE]
  /\ UNCHANGED <<cfgVars, imr, txEnabled, rxEnabled, nvicEnabled, txPins, rxPins,
                 onTxReadyCallback, onRxReadyCallback, txArgs, rxArgs, isrVars,
                 frameVars>>

HwTxSync ==
  /\ txEnabled
  /\ ~sr.TXSYN
  /\ sr' = [sr EXCEPT !.TXSYN = TRUE]
  /\ UNCHANGED <<cfgVars, imr, txEnabled, rxEnabled, nvicEnabled, txPins, rxPins,
                 onTxReadyCallback, onRxReadyCallback, txArgs, rxArgs, isrVars,
                 frameVars>>

HwRxReady ==
  /\ rxEnabled
  /\ ~sr.RXRDY
  /\ sr' = [sr EXCEPT !.RXRDY = TRUE]
  /\ UNCHANGED <<cfgVars, imr, txEnabled, rxEnabled, nvicEnabled, txPins, rxPins,
                 onTxReadyCallback, onRxReadyCallback, txArgs, rxArgs, isrVars,
                 frameVars>>

HwRxSync ==
  /\ rxEnabled
  /\ ~sr.RXSYN
  /\ sr' = [sr EXCEPT !.RXSYN = TRUE]
  /\ UNCHANGED <<cfgVars, imr, txEnabled, rxEnabled, nvicEnabled, txPins, rxPins,
                 onTxReadyCallback, onRxReadyCallback, txArgs, rxArgs, isrVars,
                 frameVars>>

\* The interrupt line of the SSC: a ready bit that is set and unmasked
IrqPending ==
  \/ sr.TXRDY /\ "TXRDY" \in imr
  \/ sr.RXRDY /\ "RXRDY" \in imr

\* ------------------------------------------------------------------------
\* SSC_Handler -> HiFiClass::onService, in three steps separated by its
\* reads of the status register; the peripheral runs between the steps.
\* ------------------------------------------------------------------------
\* uint32_t status = ssc_get_status(SSC);
onServiceStatus ==
  /\ pc = "idle"
  /\ nvicEnabled
  /\ IrqPending
  /\ status' = sr
  /\ sr' = ReadSR(sr)
  /\ inv' = [NoInvocation EXCEPT !.reads = 1]
  /\ pc' = "tx"
  /\ UNCHANGED <<cfgVars, imr, txEnabled, rxEnabled, nvicEnabled, txPins, rxPins,
                 onTxReadyCallback, onRxReadyCallback, txArgs, rxArgs, frameVars>>

\* if (ssc_is_tx_ready(SSC) == SSC_RC_YES) { if (HiFi.onTxReadyCallback) ... }
onServiceTx ==
  /\ pc = "tx"
  /\ LET ready == sr.TXRDY
         called == TxCalled(ready, onTxReadyCallback)
     IN /\ inv' = [inv EXCEPT
                     !.reads = @ + 1,
                     !.txReady = ready,
                     !.calls = IF called
                               THEN Append(@, <<"tx", TxChannel(status)>>)
                               ELSE @,
                     !.served = IF called
                                THEN Append(@, <<"tx", txFrame.pending>>)
                                ELSE @]
        /\ sr' = IF called THEN codecTxReadyInterrupt(ReadSR(sr)) ELSE ReadSR(sr)
        /\ txFrame' = IF called THEN [txFrame EXCEPT !.pending = 0] ELSE txFrame
  /\ pc' = "rx"
  /\ UNCHANGED <<cfgVars, imr, txEnabled, rxEnabled, nvicEnabled, txPins, rxPins,
                 onTxReadyCallback, onRxReadyCallback, txArgs, rxArgs, status,
                 rxFrame>>

\* if (ssc_is_rx_ready(SSC) == SSC_RC_YES) { if (HiFi.onRxReadyCallback) ... }
onServiceRx ==
  /\ pc = "rx"
  /\ LET ready == sr.RXRDY
         called == RxCalled(ready, onRxReadyCallback)
     IN /\ inv' = [inv EXCEPT
                     !.reads = @ + 1,
                     !.rxReady = ready,
                     !.calls = IF called
                               THEN Append(@, <<"rx", RxChannel(status)>>)
                               ELSE @,
                     !.served = IF called
                                THEN Append(@, <<"rx", rxFrame.pending>>)
                                ELSE @]
        /\ sr' = IF called THEN codecRxReadyInterrupt(ReadSR(sr)) ELSE ReadSR(sr)
        /\ rxFrame' = IF called THEN [rxFrame EXCEPT !.pending = 0] ELSE rxFrame
  /\ pc' = "done"
  /\ UNCHANGED <<cfgVars, imr, txEnabled, rxEnabled, nvicEnabled, txPins, rxPins,
                 onTxReadyCallback, onRxReadyCallback, txArgs, rxArgs, status,
                 txFrame>>

\* the handler returns; its locals are gone
onServiceReturn ==
  /\ pc = "done"
  /\ pc' = "idle"
  /\ status' = ZeroStatus
  /\ inv' = NoInvocation
  /\ UNCHANGED <<cfgVars, imr, txEnabled, rxEnabled, sr, nvicEnabled, txPins,
                 rxPins, onTxReadyCallback, onRxReadyCallback, txArgs, rxArgs,
                 frameVars>>

\* ------------------------------------------------------------------------
\* Specifications
\* ------------------------------------------------------------------------
\* SpecConfig: every sequence of calls of the configuration API.
ConfigureTxAny ==
  \E a \in HiFiAudioMode_t, c \in HiFiClockMode_t, b \in BitsPerChannelValues :
    configureTx(a, c, b)

ConfigureRxAny ==
  \E a \in HiFiAudioMode_t, c \in HiFiClockMode_t, b \in BitsPerChannelValues :
    configureRx(a, c, b)

EnableTxAny == \E e \in BOOLEAN : enableTx(e)

EnableRxAny == \E e \in BOOLEAN : enableRx(e)

OnTxReadyAny == \E f \in TxCallbacks : onTxReady(f)

OnRxReadyAny == \E f \in RxCallbacks : onRxReady(f)

NextConfig ==
  \/ begin
  \/ ConfigureTxAny
  \/ ConfigureRxAny
  \/ EnableTxAny
  \/ EnableRxAny
  \/ OnTxReadyAny
  \/ OnRxReadyAny

SpecConfig == Init /\ [][NextConfig]_vars

\* Spec: the driver with the peripheral and the interrupt handler running.
\* The handler never looks at the word length: one length is enough here.
ServiceBitsPerChannel == {32}

ConfigureTxService ==
  \E a \in HiFiAudioMode_t, c \in HiFiClockMode_t, b \in ServiceBitsPerChannel :
    configureTx(a, c, b)

ConfigureRxService ==
  \E a \in HiFiAudioMode_t, c \in HiFiClockMode_t, b \in ServiceBitsPerChannel :
    configureRx(a, c, b)

Next ==
  \/ begin
  \/ ConfigureTxService
  \/ ConfigureRxService
  \/ EnableTxAny
  \/ EnableRxAny
  \/ OnTxReadyAny
  \/ OnRxReadyAny
  \/ HwTxReady
  \/ HwTxSync
  \/ HwRxReady
  \/ HwRxSync
  \/ onServiceStatus
  \/ onServiceTx
  \/ onServiceRx
  \/ onServiceReturn

Spec == Init /\ [][Next]_vars


\* ------------------------------------------------------------------------
\* The peripheral, frame by frame.  The start condition of a frame sets the
\* sync bit of its direction; the ready events of the frame's slots follow
\* one by one, each raised once the one before it was serviced, and the next
\* frame starts once every slot of this one was serviced: the callbacks keep
\* up with the codec.
\* ------------------------------------------------------------------------
HwTxFrameStart ==
  /\ txEnabled
  /\ txArgs # NoArgs
  /\ ~sr.TXRDY
  /\ txFrame = NoFrame
  /\ sr' = [sr EXCEPT !.TXSYN = TRUE]
  /\ txFrame' = [txFrame EXCEPT !.next = 1]
  /\ UNCHANGED <<cfgVars, imr, txEnabled, rxEnabled, nvicEnabled, txPins, rxPins,
                 onTxReadyCallback, onRxReadyCallback, txArgs, rxArgs, isrVars,
                 rxFrame>>

HwTxSlotReady ==
  /\ txEnabled
  /\ ~sr.TXRDY
  /\ txFrame.next # 0
  /\ txFrame.pending = 0
  /\ sr' = [sr EXCEPT !.TXRDY = TRUE]
  /\ txFrame' = [next |-> IF txFrame.next <= tfmr.ul_datnb
                          THEN txFrame.next + 1 ELSE 0,
                 pending |-> txFrame.next]
  /\ UNCHANGED <<cfgVars, imr, txEnabled, rxEnabled, nvicEnabled, txPins, rxPins,
                 onTxReadyCallback, onRxReadyCallback, txArgs, rxArgs, isrVars,
                 rxFrame>>

HwRxFrameStart ==
  /\ rxEnabled
  /\ rxArgs # NoArgs
  /\ ~sr.RXRDY
  /\ rxFrame = NoFrame
  /\ sr' = [sr EXCEPT !.RXSYN = TRUE]
  /\ rxFrame' = [rxFrame EXCEPT !.next = 1]
  /\ UNCHANGED <<cfgVars, imr, txEnabled, rxEnabled, nvicEnabled, txPins, rxPins,
                 onTxReadyCallback, onRxReadyCallback, txArgs, rxArgs, isrVars,
                 txFrame>>

HwRxSlotReady ==
  /\ rxEnabled
  /\ ~sr.RXRDY
  /\ rxFrame.next # 0
  /\ rxFrame.pending = 0
  /\ sr' = [sr EXCEPT !.RXRDY = TRUE]
  /\ rxFrame' = [next |-> IF rxFrame.next <= rfmr.ul_datnb
                          THEN rxFrame.next + 1 ELSE 0,
                 pending |-> rxFrame.next]
  /\ UNCHANGED <<cfgVars, imr, txEnabled, rxEnabled, nvicEnabled, txPins, rxPins,
                 onTxReadyCallback, onRxReadyCallback, txArgs, rxArgs, isrVars,
                 txFrame>>

\* SpecFrames: the set-up of the example sketch (both directions stereo, 32
\* bits, the receiver following the transmitter, both callbacks registered,
\* both directions enabled), the peripheral frame by frame and the handler.
ConfigureTxSketch ==
  configureTx(HIFI_AUDIO_MODE_STEREO, HIFI_CLK_MODE_USE_EXT_CLKS, 32)

ConfigureRxSketch ==
  configureRx(HIFI_AUDIO_MODE_STEREO, HIFI_CLK_MODE_USE_TK_RK_CLK, 32)

OnTxReadySketch == onTxReady("codecTxReadyInterrupt")

OnRxReadySketch == onRxReady("codecRxReadyInterrupt")

EnableRxSketch == enableRx(TRUE)

EnableTxSketch == enableTx(TRUE)

NextFrames ==
  \/ begin
  \/ ConfigureTxSketch
  \/ ConfigureRxSketch
  \/ OnTxReadySketch
  \/ OnRxReadySketch
  \/ EnableRxSketch
  \/ EnableTxSketch
  \/ HwTxFrameStart
  \/ HwTxSlotReady
  \/ HwRxFrameStart
  \/ HwRxSlotReady
  \/ onServiceStatus
  \/ onServiceTx
  \/ onServiceRx
  \/ onServiceReturn

SpecFrames == Init /\ [][NextFrames]_vars

\* ------------------------------------------------------------------------
\* Properties
\* ------------------------------------------------------------------------
TxConfigured == txArgs # NoArgs
RxConfigured == rxArgs # NoArgs

\* the callbacks of direction d made by the current invocation of onService
CallsOf(d) == SelectSeq(inv.calls, LAMBDA c : c[1] = d)

\* C1: in every invocation of onService, a direction whose ready test
\* succeeds and whose callback is registered gets exactly the callback
\* channel-1 if its sync bit (TXSYN / RXSYN) is set in the latched status
\* value and channel-2 if it is clear, whatever happened in earlier
\* invocations.
C1_ChannelFromSyncBit ==
  /\ (pc \in {"rx", "done"} /\ inv.txReady /\ onTxReadyCallback # NULL)
       => CallsOf("tx") =
            << <<"tx", IF status.TXSYN THEN HIFI_CHANNEL_ID_1 ELSE HIFI_CHANNEL_ID_2>> >>
  /\ (pc = "done" /\ inv.rxReady /\ onRxReadyCallback # NULL)
       => CallsOf("rx") =
            << <<"rx", IF status.RXSYN THEN HIFI_CHANNEL_ID_1 ELSE HIFI_CHANNEL_ID_2>> >>

\* an invocation that classified transmit as channel-1 and receive as channel-2
C1_Witness ==
  /\ pc = "done"
  /\ status.TXSYN
  /\ ~status.RXSYN
  /\ inv.calls = << <<"tx", HIFI_CHANNEL_ID_1>>, <<"rx", HIFI_CHANNEL_ID_2>> >>

\* C2: when both ready bits are set in one invocation (in the latched status
\* or at the handler's two ready tests) and both callbacks are registered,
\* the invocation calls the transmit callback once, then the receive callback
\* once; a direction whose ready test fails gets no callback.
C2_BothOnceTxFirst ==
  pc = "done" =>
    /\ ( /\ \/ inv.txReady /\ inv.rxReady
            \/ status.TXRDY /\ status.RXRDY
         /\ onTxReadyCallback # NULL
         /\ onRxReadyCallback # NULL )
         => /\ Len(inv.calls) = 2
            /\ inv.calls[1][1] = "tx"
            /\ inv.calls[2][1] = "rx"
    /\ ~inv.txReady => CallsOf("tx") = <<>>
    /\ ~inv.rxReady => CallsOf("rx") = <<>>

\* an invocation that found both directions ready and called both callbacks
C2_Witness ==
  /\ pc = "done"
  /\ status.TXRDY
  /\ status.RXRDY
  /\ Len(inv.calls) = 2


\* C3 as stated: after every configure call, whatever its clkMode, the start
\* trigger is the falling edge of the frame clock for mono-left and stereo and
\* the rising edge for mono-right.
C3_EdgeForEveryClkMode ==
  /\ TxConfigured =>
       tcmr.ul_start_sel = IF txArgs[1] = HIFI_AUDIO_MODE_MONO_RIGHT
                           THEN SSC_TCMR_START_RF_RISING
                           ELSE SSC_TCMR_START_RF_FALLING
  /\ RxConfigured =>
       rcmr.ul_start_sel = IF rxArgs[1] = HIFI_AUDIO_MODE_MONO_RIGHT
                           THEN SSC_RCMR_START_RF_RISING
                           ELSE SSC_RCMR_START_RF_FALLING

\* C3, amended: after a configure call with clkMode = external-clock-pins the
\* start trigger is the falling edge of the frame clock for mono-left and
\* stereo and the rising edge for mono-right; after a configure call with
\* clkMode = shared-clock it is the start of the other direction, for every
\* audioMode.
C3_EdgeWithExternalClocks ==
  /\ (TxConfigured /\ txArgs[2] = HIFI_CLK_MODE_USE_EXT_CLKS) =>
       tcmr.ul_start_sel = IF txArgs[1] = HIFI_AUDIO_MODE_MONO_RIGHT
                           THEN SSC_TCMR_START_RF_RISING
                           ELSE SSC_TCMR_START_RF_FALLING
  /\ (RxConfigured /\ rxArgs[2] = HIFI_CLK_MODE_USE_EXT_CLKS) =>
       rcmr.ul_start_sel = IF rxArgs[1] = HIFI_AUDIO_MODE_MONO_RIGHT
                           THEN SSC_RCMR_START_RF_RISING
                           ELSE SSC_RCMR_START_RF_FALLING
  /\ (TxConfigured /\ txArgs[2] = HIFI_CLK_MODE_USE_TK_RK_CLK) =>
       tcmr.ul_start_sel = SSC_TCMR_START_RECEIVE
  /\ (RxConfigured /\ rxArgs[2] = HIFI_CLK_MODE_USE_TK_RK_CLK) =>
       rcmr.ul_start_sel = SSC_RCMR_START_TRANSMIT

\* transmit configured mono-right and receive stereo, both on external clocks
C3_Witness ==
  /\ TxConfigured
  /\ txArgs[1] = HIFI_AUDIO_MODE_MONO_RIGHT
  /\ txArgs[2] = HIFI_CLK_MODE_USE_EXT_CLKS
  /\ tcmr.ul_start_sel = SSC_TCMR_START_RF_RISING
  /\ RxConfigured
  /\ rxArgs[1] = HIFI_AUDIO_MODE_STEREO
  /\ rxArgs[2] = HIFI_CLK_MODE_USE_EXT_CLKS
  /\ rcmr.ul_start_sel = SSC_RCMR_START_RF_FALLING

\* C4: after configureTx with shared-clock the transmitter is clocked by the
\* receiver's clock and starts when the receiver starts; after configureRx
\* with shared-clock the receiver is clocked by the transmitter's clock and
\* starts when the transmitter starts; with external-clock-pins each
\* direction is clocked by its own clock pin.
C4_SharedClockCrossReference ==
  /\ (TxConfigured /\ txArgs[2] = HIFI_CLK_MODE_USE_TK_RK_CLK) =>
       /\ TcmrClock(tcmr.ul_cks) = "receiver clock"
       /\ tcmr.ul_start_sel = SSC_TCMR_START_RECEIVE
  /\ (RxConfigured /\ rxArgs[2] = HIFI_CLK_MODE_USE_TK_RK_CLK) =>
       /\ RcmrClock(rcmr.ul_cks) = "transmitter clock"
       /\ rcmr.ul_start_sel = SSC_RCMR_START_TRANSMIT
  /\ (TxConfigured /\ txArgs[2] = HIFI_CLK_MODE_USE_EXT_CLKS) =>
       TcmrClock(tcmr.ul_cks) = "TK pin"
  /\ (RxConfigured /\ rxArgs[2] = HIFI_CLK_MODE_USE_EXT_CLKS) =>
       RcmrClock(rcmr.ul_cks) = "RK pin"

\* the configuration of the example sketch: transmit on its own pins, receive
\* following the transmitter
C4_Witness ==
  /\ TxConfigured
  /\ txArgs[2] = HIFI_CLK_MODE_USE_EXT_CLKS
  /\ RxConfigured
  /\ rxArgs[2] = HIFI_CLK_MODE_USE_TK_RK_CLK
  /\ RcmrClock(rcmr.ul_cks) = "transmitter clock"

\* C5 as stated: a configure call with shared-clock hands only the data pin
\* of its direction to PIO_Configure, and one with external-clock-pins hands
\* over the data, frame and clock pins.
C5_SharedClockClaimsDataPinOnly ==
  /\ TxConfigured =>
       txPins = IF txArgs[2] = HIFI_CLK_MODE_USE_TK_RK_CLK
                THEN {"TD"} ELSE {"TD", "TF", "TK"}
  /\ RxConfigured =>
       rxPins = IF rxArgs[2] = HIFI_CLK_MODE_USE_TK_RK_CLK
                THEN {"RD"} ELSE {"RD", "RF", "RK"}

\* C6: after a configure call with bitsPerChannel in 1..32 the data length
\* field of the frame mode register is bitsPerChannel - 1, a value in 0..31.
C6_DataLength ==
  /\ (TxConfigured /\ txArgs[3] \in 1 .. 32) =>
       /\ tfmr.ul_datlen = txArgs[3] - 1
       /\ tfmr.ul_datlen \in 0 .. 31
  /\ (RxConfigured /\ rxArgs[3] \in 1 .. 32) =>
       /\ rfmr.ul_datlen = rxArgs[3] - 1
       /\ rfmr.ul_datlen \in 0 .. 31

\* transmit configured with 32 bits and receive with 1 bit
C6_Witness ==
  /\ TxConfigured
  /\ txArgs[3] = 32
  /\ tfmr.ul_datlen = 31
  /\ RxConfigured
  /\ rxArgs[3] = 1
  /\ rfmr.ul_datlen = 0

\* C7: after a configure call the frame carries 2 data words if audioMode is
\* stereo and 1 if it is mono-left or mono-right (the field holds the number
\* of words minus one).
C7_SlotsPerFrame ==
  /\ TxConfigured =>
       tfmr.ul_datnb + 1 = IF txArgs[1] = HIFI_AUDIO_MODE_STEREO THEN 2 ELSE 1
  /\ RxConfigured =>
       rfmr.ul_datnb + 1 = IF rxArgs[1] = HIFI_AUDIO_MODE_STEREO THEN 2 ELSE 1

\* transmit configured stereo and receive mono-left
C7_Witness ==
  /\ TxConfigured
  /\ txArgs[1] = HIFI_AUDIO_MODE_STEREO
  /\ tfmr.ul_datnb = 1
  /\ RxConfigured
  /\ rxArgs[1] = HIFI_AUDIO_MODE_MONO_LEFT
  /\ rfmr.ul_datnb = 0

\* C8: in every state reached by calls of begin, configureTx, configureRx,
\* enableTx, enableRx, onTxReady and onRxReady, neither direction outputs a
\* clock (clock output none, no gating, divider period 0) or a frame sync
\* (frame sync output none): every one of these fields holds code 0.
C8_SlaveOnly ==
  /\ tcmr.ul_cko = 0
  /\ tcmr.ul_ckg = 0
  /\ tcmr.ul_period = 0
  /\ tfmr.ul_fsos = 0
  /\ rcmr.ul_cko = 0
  /\ rcmr.ul_ckg = 0
  /\ rcmr.ul_period = 0
  /\ rfmr.ul_fsos = 0

\* both directions configured and enabled, both callbacks registered
C8_Witness ==
  /\ TxConfigured
  /\ RxConfigured
  /\ txEnabled
  /\ rxEnabled
  /\ onTxReadyCallback # NULL
  /\ onRxReadyCallback # NULL
  /\ tcmr.ul_start_sel # 0
  /\ rcmr.ul_start_sel # 0

\* C9: a direction without a registered callback gets no call in an
\* invocation of onService, the invocation runs to its end, and the other
\* direction, if ready and registered, still gets its one callback.
C9_NullCallbackSkipped ==
  pc = "done" =>
    /\ onTxReadyCallback = NULL => CallsOf("tx") = <<>>
    /\ onRxReadyCallback = NULL => CallsOf("rx") = <<>>
    /\ (onTxReadyCallback = NULL /\ inv.rxReady /\ onRxReadyCallback # NULL)
         => /\ Len(inv.calls) = 1
            /\ inv.calls[1][1] = "rx"
    /\ (onRxReadyCallback = NULL /\ inv.txReady /\ onTxReadyCallback # NULL)
         => /\ Len(inv.calls) = 1
            /\ inv.calls[1][1] = "tx"

\* both directions ready, no receive callback: only transmit was called
C9_Witness ==
  /\ pc = "done"
  /\ inv.txReady
  /\ inv.rxReady
  /\ onRxReadyCallback = NULL
  /\ Len(inv.calls) = 1
  /\ inv.calls[1][1] = "tx"

\* C10: a step of enableTx changes nothing but the transmitter's enable bit
\* and a step of enableRx nothing but the receiver's: the four mode
\* registers, the interrupt mask, both callbacks and the other direction's
\* enable bit keep their values; so the committed configuration of a
\* direction is that of its last configure call however often the direction
\* was disabled and enabled since.
C10_EnableFrame ==
  /\ [][ /\ (\E e \in BOOLEAN : enableTx(e)) =>
              UNCHANGED <<tcmr, tfmr, rcmr, rfmr, imr, onTxReadyCallback,
                          onRxReadyCallback, rxEnabled>>
         /\ (\E e \in BOOLEAN : enableRx(e)) =>
              UNCHANGED <<tcmr, tfmr, rcmr, rfmr, imr, onTxReadyCallback,
                          onRxReadyCallback, txEnabled>> ]_vars
  /\ [](TxConfigured =>
          /\ tcmr.ul_start_sel # 0
          /\ tfmr.ul_datlen = txArgs[3] - 1
          /\ "TXRDY" \in imr)
  /\ [](RxConfigured =>
          /\ rcmr.ul_start_sel # 0
          /\ rfmr.ul_datlen = rxArgs[3] - 1
          /\ "RXRDY" \in imr)

\* the transmitter enabled and the receiver disabled after both were configured
C10_Witness ==
  /\ TxConfigured
  /\ RxConfigured
  /\ txEnabled
  /\ ~rxEnabled
  /\ onTxReadyCallback # NULL
  /\ onRxReadyCallback # NULL


\* C11 as stated: an invocation of onService reads the status register
\* exactly once, and its two ready decisions are those of the latched value.
C11_SingleStatusRead ==
  pc = "done" =>
    /\ inv.reads = 1
    /\ inv.txReady = status.TXRDY
    /\ inv.rxReady = status.RXRDY

\* C12 as stated: while a direction is configured mono-left or mono-right,
\* every callback of that direction receives channel-1, whatever the sync bit
\* of the latched status is.
C12_MonoReportsChannel1Only ==
  pc \in {"rx", "done"} =>
    /\ (TxConfigured /\ txArgs[1] # HIFI_AUDIO_MODE_STEREO) =>
         \A i \in 1 .. Len(inv.calls) :
           inv.calls[i][1] = "tx" => inv.calls[i][2] = HIFI_CHANNEL_ID_1
    /\ (RxConfigured /\ rxArgs[1] # HIFI_AUDIO_MODE_STEREO) =>
         \A i \in 1 .. Len(inv.calls) :
           inv.calls[i][1] = "rx" => inv.calls[i][2] = HIFI_CHANNEL_ID_1


\* C13 as stated: with both directions configured stereo and enabled, every
\* callback that answers the ready event of the first slot of a frame
\* receives channel-1 and every callback that answers the ready event of the
\* second slot receives channel-2, however the ready interrupts of the two
\* directions interleave.
C13_SlotsReportedInOrder ==
  ( /\ pc \in {"rx", "done"}
    /\ TxConfigured /\ txArgs[1] = HIFI_AUDIO_MODE_STEREO /\ txEnabled
    /\ RxConfigured /\ rxArgs[1] = HIFI_AUDIO_MODE_STEREO /\ rxEnabled )
  => \A i \in 1 .. Len(inv.served) :
       /\ inv.served[i][2] = 1 => inv.calls[i][2] = HIFI_CHANNEL_ID_1
       /\ inv.served[i][2] = 2 => inv.calls[i][2] = HIFI_CHANNEL_ID_2

====
